---- MODULE Spec2Model ----
(***************************************************************************)
(* A model of mkeeler/mock-http-api (src/endpoint.go): the MockAPI HTTP     *)
(* handler, its registration helpers and the cardinality wrappers, together *)
(* with the behaviour of the testify mock.Mock value that MockAPI delegates *)
(* matching, counting and assertion to (m.m.On, m.m.Called,                 *)
(* m.m.AssertExpectations and the mock.Call setters).                       *)
(***************************************************************************)
EXTENDS Integers, Sequences, FiniteSets, TLC

VARIABLES
    tNil,             \* MockAPI.t is the nil interface (NewMockAPI(nil))
    filteredHeaders,  \* MockAPI.filteredHeaders, as the set of its keys
    filteredParams,   \* MockAPI.filteredParams, as the set of its keys
    ExpectedCalls,    \* mock.Mock.ExpectedCalls: the registered *mock.Call, in On() order
    calls,            \* mock.Mock.calls: the argument lists of the calls that were matched
    times,            \* history: the n of the last Once/Twice/Times(n) on each handle, -1 if
                      \* none, -2 if it was called after the handle had been matched
    reqs,             \* the handler goroutines: one record per inbound request, with the
                      \* position of its handler in ServeHTTP (pc)
    gate,             \* the channel handed to WaitUntil
    server,           \* httptest.Server: "open", "closing" (Close waits for handlers), "closed"
    errors,           \* what the TestingT was told through Errorf
    asserts,          \* number of testify AssertExpectations runs so far
    unmet,            \* the expectations the last AssertExpectations run logged as FAIL
    pending           \* the test goroutine inside WithRequest/DefaultHandler: what it does next

vars == <<tNil, filteredHeaders, filteredParams, ExpectedCalls, calls, times,
          reqs, gate, server, errors, asserts, unmet, pending>>

-----------------------------------------------------------------------------
(* Bounds of the model. *)
MaxCalls == 2       \* registered expectations
MaxRequests == 2    \* inbound requests over the life of the server
MaxTimes == 2       \* largest n handed to Times(n)
MaxAsserts == 2     \* runs of AssertExpectations and Close

-----------------------------------------------------------------------------
(* Go values.  A Go map is a record: the nil map and the empty map differ   *)
(* under reflect.DeepEqual.  An interface{} argument carries its dynamic    *)
(* type, so every argument handed to testify is a record with a type tag.   *)

NilMap == [isNil |-> TRUE, kv |-> {}]
MkMap(kv) == [isNil |-> FALSE, kv |-> kv]

Str(s) == [type |-> "string", s |-> s, m |-> NilMap]
StrMap(m) == [type |-> "map[string]string", s |-> "", m |-> m]
NilBody == [type |-> "nil", s |-> "", m |-> NilMap]
Bytes(b) == [type |-> "[]uint8", s |-> b, m |-> NilMap]
ObjMap(m) == [type |-> "map[string]interface {}", s |-> "", m |-> m]

(* testify: mock.Anything, mock.AnythingOfType(t), the "(Missing)" filler of Arguments.Diff *)
Anything == Str("mock.Anything")
AnythingOfType(t) == [type |-> "mock.AnythingOfTypeArgument", s |-> t, m |-> NilMap]
Missing == Str("(Missing)")

-----------------------------------------------------------------------------
(* encoding/json.Unmarshal(bodyBytes, &bodyMap) with bodyMap a fresh nil     *)
(* map[string]interface{}: a JSON object decodes into a map, the literal     *)
(* null leaves the map nil without error, and anything else (a syntax error, *)
(* or a JSON array or scalar, which is a type error) returns an error and    *)
(* leaves the map nil.  Numbers decode as float64.                           *)
Unmarshal(b) ==
    CASE b = "{\"a\":1}" -> [err |-> FALSE, m |-> MkMap({<<"a", "float64(1)">>})]
      [] b = "{}"        -> [err |-> FALSE, m |-> MkMap({})]
      [] b = "null"      -> [err |-> FALSE, m |-> NilMap]
      [] OTHER           -> [err |-> TRUE, m |-> NilMap]

(* ServeHTTP, the body read: nil unless the body was read and is not empty;  *)
(* otherwise the raw bytes, replaced by bodyMap when Unmarshal returned an   *)
(* error (the condition the source tests is err != nil).                     *)
RecordedBody(raw) ==
    IF raw.body.present /\ raw.body.bytes # ""
    THEN IF Unmarshal(raw.body.bytes).err
         THEN ObjMap(Unmarshal(raw.body.bytes).m)
         ELSE Bytes(raw.body.bytes)
    ELSE NilBody

(* ServeHTTP, one iteration of a loop: the lookup of the key in the filter    *)
(* map, and the assignment of the first value, which makes the map at the    *)
(* first key that is kept.                                                   *)
(* Mutant of Skipped: the filter is not consulted. *)
SkippedNever(key, filtered) == FALSE

Skipped(key, filtered) == key \in filtered

Put(m, key, value) == MkMap(m.kv \cup {<<key, value>>})

(* var headers map[string]string / var params map[string]string: nil maps.   *)
(* Mutant of NoEntries: the map is made before the loop, so it is never nil. *)
NoEntriesButMade == MkMap({})

NoEntries == NilMap

-----------------------------------------------------------------------------
(* testify mock: argument comparison and call selection.                     *)

(* assert.ObjectsAreEqual: equal dynamic type and deeply equal value. *)
ObjectsAreEqual(expected, actual) == expected = actual

Max(a, b) == IF a >= b THEN a ELSE b

ArgAt(args, i) == IF i <= Len(args) THEN args[i] ELSE Missing

(* One position of Arguments.Diff. *)
ArgMatches(expected, actual) ==
    IF expected.type = "mock.AnythingOfTypeArgument"
    THEN actual.type = expected.s
    ELSE \/ ObjectsAreEqual(expected, Anything)
         \/ ObjectsAreEqual(actual, Anything)
         \/ ObjectsAreEqual(actual, expected)

(* Arguments.Diff: the number of differing positions, over the longer of the *)
(* two lists; a position one list lacks is compared as "(Missing)".          *)
Diff(expected, actual) ==
    Cardinality({i \in 1..Max(Len(expected), Len(actual)) :
                    ~ArgMatches(ArgAt(expected, i), ArgAt(actual, i))})

(* Mock.findExpectedCall: the first registered call whose arguments match    *)
(* and whose Repeatability is not -1; 0 when there is none.                  *)
Matching(args) == {i \in 1..Len(ExpectedCalls) : Diff(ExpectedCalls[i].Arguments, args) = 0}

Available(args) == {i \in Matching(args) : ExpectedCalls[i].Repeatability > -1}

Min(S) == CHOOSE x \in S : \A y \in S : x <= y

(* Mutant of findExpectedCall: the last registered usable call. *)
findLastExpectedCall(args) ==
    IF Available(args) = {} THEN 0 ELSE CHOOSE x \in Available(args) : \A y \in Available(args) : y <= x

(* Mutant of findExpectedCall: fall back on the first registered call when   *)
(* nothing matches.                                                          *)
findClosestCall(args) ==
    IF Available(args) # {} THEN Min(Available(args))
    ELSE IF Len(ExpectedCalls) > 0 /\ ExpectedCalls[1].Repeatability > -1 THEN 1 ELSE 0

findExpectedCall(args) == IF Available(args) = {} THEN 0 ELSE Min(Available(args))

(* Mutant of Consume: the last permitted call leaves Repeatability at 0. *)
ConsumeNeverExhausts(c) ==
    [c EXCEPT !.Repeatability = IF c.Repeatability >= 1 THEN c.Repeatability - 1
                                ELSE c.Repeatability,
              !.totalCalls = c.totalCalls + 1]

(* Mock.MethodCalled, the bookkeeping done under the mutex for the call found. *)
Consume(c) ==
    [c EXCEPT !.Repeatability = IF c.Repeatability = 1 THEN -1
                                ELSE IF c.Repeatability > 1 THEN c.Repeatability - 1
                                ELSE c.Repeatability,
              !.totalCalls = c.totalCalls + 1]

(* Mock.methodWasCalled and the test of Mock.AssertExpectations for one call. *)
methodWasCalled(expected) == \E a \in calls : Diff(expected, a) = 0

(* Mutant of Satisfied: calls still owed are not counted. *)
SatisfiedAnyCount(c) ==
    ~(~c.optional /\ ~methodWasCalled(c.Arguments) /\ c.totalCalls = 0)

(* Mutant of Satisfied: optional is not consulted. *)
SatisfiedIgnoringOptional(c) ==
    IF ~methodWasCalled(c.Arguments) /\ c.totalCalls = 0
    THEN FALSE
    ELSE ~(c.Repeatability > 0)

Satisfied(c) ==
    IF ~c.optional /\ ~methodWasCalled(c.Arguments) /\ c.totalCalls = 0
    THEN FALSE
    ELSE ~(c.Repeatability > 0)

Failed == {i \in 1..Len(ExpectedCalls) : ~Satisfied(ExpectedCalls[i])}

-----------------------------------------------------------------------------
(* The goroutines.  The test goroutine runs the registration helpers, the    *)
(* setters, AssertExpectations and Close one after the other; between the On *)
(* and the Return of a registration, and while Close waits for the handlers, *)
(* it can do nothing else.  net/http runs every request's handler on a       *)
(* goroutine of its own.                                                     *)

(* The value handed to Return: a MockResponse (WithRequest and the helpers   *)
(* built on it) or a plain func (DefaultHandler's parameter type); a Call    *)
(* on which Return has not been called yet has no ReturnArguments.           *)
Response(gotype, kind, status, reply) ==
    [gotype |-> gotype, kind |-> kind, status |-> status, reply |-> reply]

NoReturnArguments == Response("none", "none", 0, "nil")

Idle == [op |-> "idle", resp |-> NoReturnArguments]

TestIdle == pending.op = "idle" /\ server \in {"open", "closed"}

(* mock.Mock.mutex: On, Return, the Call setters, MethodCalled and           *)
(* AssertExpectations lock it.  It is held across steps only by a handler    *)
(* that is between the search and the bookkeeping of MethodCalled; every     *)
(* other critical section is one step.                                       *)
(* Mutant of MutexFree: the mutex excludes nobody. *)
MutexFreeAlways == TRUE

(* Mutant of MutexFree: MethodCalled keeps the mutex until it returns. *)
MutexHeldWhileWaiting ==
    \A k \in 1..Len(reqs) : reqs[k].pc \notin {"locked", "counted", "released"}

MutexFree == \A k \in 1..Len(reqs) : reqs[k].pc # "locked"

-----------------------------------------------------------------------------
(* Configuration and registration.                                           *)

(* SetFilteredHeaders / SetFilteredQueryParams replace the filter map; the   *)
(* handlers look keys up in it without synchronisation, each lookup in the   *)
(* map that is current when it is made.                                      *)
SetFilteredHeaders(headers) ==
    /\ TestIdle
    /\ filteredHeaders' = headers
    /\ UNCHANGED <<tNil, filteredParams, ExpectedCalls, calls, times, reqs, gate,
                   server, errors, asserts, unmet, pending>>

SetFilteredQueryParams(params) ==
    /\ TestIdle
    /\ filteredParams' = params
    /\ UNCHANGED <<tNil, filteredHeaders, ExpectedCalls, calls, times, reqs, gate,
                   server, errors, asserts, unmet, pending>>

(* Mutant of NewCall: a new Call that may be matched once only. *)
NewCallOnce(arguments) ==
    [Arguments |-> arguments, ReturnArguments |-> NoReturnArguments, Repeatability |-> 1,
     totalCalls |-> 0, optional |-> FALSE, WaitFor |-> FALSE]

(* mock.Mock.On(...): a new Call, appended under the mutex; no               *)
(* ReturnArguments, Repeatability 0, totalCalls 0, not optional, no WaitFor. *)
NewCall(arguments) ==
    [Arguments |-> arguments, ReturnArguments |-> NoReturnArguments, Repeatability |-> 0,
     totalCalls |-> 0, optional |-> FALSE, WaitFor |-> FALSE]

On(arguments) ==
    /\ MutexFree
    /\ Len(ExpectedCalls) < MaxCalls
    /\ ExpectedCalls' = Append(ExpectedCalls, NewCall(arguments))
    /\ times' = Append(times, -1)

(* NewMockRequest(method, path) and its With* setters build a MockRequest:   *)
(* headers and queryParams are nil maps and body the nil interface unless    *)
(* set.  WithRequest registers its five fields as the expected arguments.    *)
MockRequest(method, path, headers, queryParams, body) ==
    [method |-> method, path |-> path, headers |-> headers,
     queryParams |-> queryParams, body |-> body]

NewMockRequest(method, path) == MockRequest(method, path, NilMap, NilMap, NilBody)

WithBody(req, body) == [req EXCEPT !.body = body]
WithHeaders(req, headers) == [req EXCEPT !.headers = headers]
WithQueryParams(req, params) == [req EXCEPT !.queryParams = params]

RequestArguments(req) ==
    << Str(req.method), Str(req.path), StrMap(req.headers), StrMap(req.queryParams), req.body >>

(* WithRequest, its first half: m.m.On(...).  The Return is the test         *)
(* goroutine's next step.                                                    *)
WithRequest(req, resp) ==
    /\ TestIdle
    /\ On(RequestArguments(req))
    /\ pending' = [op |-> "Return", resp |-> resp]
    /\ UNCHANGED <<tNil, filteredHeaders, filteredParams, calls, reqs, gate,
                   server, errors, asserts, unmet>>

WithNoResponseBody(req, status) ==
    WithRequest(req, Response("MockResponse", "none", status, "nil"))

WithJSONReply(req, status, reply) ==
    WithRequest(req, Response("MockResponse", "json", status, reply))

WithTxtReply(req, status, reply) ==
    WithRequest(req, Response("MockResponse", "txt", status, reply))

WithStreamingReply(req, status, reply) ==
    WithRequest(req, Response("MockResponse", "stream", status, reply))

(* DefaultHandler, its first third: On("ServeHTTP", AnythingOfType("string"), *)
(* AnythingOfType("string"), Anything); Return(response) and Times(0) follow. *)
DefaultHandlerArguments == << AnythingOfType("string"), AnythingOfType("string"), Anything >>

DefaultHandler(status) ==
    /\ TestIdle
    /\ On(DefaultHandlerArguments)
    /\ pending' = [op |-> "ReturnTimes", resp |-> Response("func", "func", status, "nil")]
    /\ UNCHANGED <<tNil, filteredHeaders, filteredParams, calls, reqs, gate,
                   server, errors, asserts, unmet>>

IsDefaultHandler(c) == c.Arguments = DefaultHandlerArguments

(* mock.Call.Return(resp) on the Call that On has just made: under the mutex. *)
Return ==
    /\ pending.op \in {"Return", "ReturnTimes"}
    /\ MutexFree
    /\ ExpectedCalls' = [ExpectedCalls EXCEPT ![Len(ExpectedCalls)].ReturnArguments = pending.resp]
    /\ pending' = IF pending.op = "ReturnTimes" THEN [op |-> "Times", resp |-> NoReturnArguments] ELSE Idle
    /\ UNCHANGED <<tNil, filteredHeaders, filteredParams, calls, times, reqs, gate,
                   server, errors, asserts, unmet>>

-----------------------------------------------------------------------------
(* The MockAPICall wrappers, on any handle a registration has returned, at   *)
(* any time.                                                                 *)
Handle(i) ==
    /\ TestIdle
    /\ MutexFree
    /\ i \in 1..Len(ExpectedCalls)

(* mock.Call.Times(i): Repeatability = i, under the mutex.  The history      *)
(* keeps n, or -2 when the handle had been matched before the call.          *)
SetRepeatability(i, n) ==
    /\ MutexFree
    /\ ExpectedCalls' = [ExpectedCalls EXCEPT ![i].Repeatability = n]
    /\ times' = [times EXCEPT ![i] = IF ExpectedCalls[i].totalCalls = 0 THEN n ELSE -2]

Times(i, n) ==
    /\ Handle(i)
    /\ SetRepeatability(i, n)
    /\ UNCHANGED <<tNil, filteredHeaders, filteredParams, calls, reqs, gate,
                   server, errors, asserts, unmet, pending>>

(* mock.Call.Once() is Times(1), mock.Call.Twice() is Times(2). *)
Once(i) == Times(i, 1)

Twice(i) == Times(i, 2)

(* DefaultHandler, its last third: .Times(0) on the Call just made. *)
DefaultHandlerTimes ==
    /\ pending.op = "Times"
    /\ SetRepeatability(Len(ExpectedCalls), 0)
    /\ pending' = Idle
    /\ UNCHANGED <<tNil, filteredHeaders, filteredParams, calls, reqs, gate,
                   server, errors, asserts, unmet>>

(* mock.Call.Maybe(): optional = true. *)
Maybe(i) ==
    /\ Handle(i)
    /\ ExpectedCalls' = [ExpectedCalls EXCEPT ![i].optional = TRUE]
    /\ UNCHANGED <<tNil, filteredHeaders, filteredParams, calls, times, reqs, gate,
                   server, errors, asserts, unmet, pending>>

(* mock.Call.WaitUntil(w): WaitFor = w. *)
WaitUntil(i) ==
    /\ Handle(i)
    /\ ExpectedCalls' = [ExpectedCalls EXCEPT ![i].WaitFor = TRUE]
    /\ UNCHANGED <<tNil, filteredHeaders, filteredParams, calls, times, reqs, gate,
                   server, errors, asserts, unmet, pending>>

-----------------------------------------------------------------------------
(* Serving a request: the steps of one handler goroutine.                    *)

(* pc: "reading" (in ServeHTTP before m.m.Called), "locked" (in MethodCalled *)
(* with the mutex, the call found), "missed" (in MethodCalled after the      *)
(* unlock, no call found, before Mock.fail; miss is what it will report),    *)
(* "counted" (in MethodCalled after the unlock), "released" (past the        *)
(* receive from WaitFor), "returned" (back in ServeHTTP with the return      *)
(* arguments ret), and finally "done" (returned from ServeHTTP), "failed"    *)
(* (ended by FailNow) or "panicked".  hdrs and params are the keys the       *)
(* loops have still to visit.  seen, raced and                               *)
(* waited are history: the filters when the request arrived, whether a       *)
(* lookup was made in other filters, and whether the handler received from   *)
(* a WaitFor channel.                                                        *)
Request(raw, args, hdrs, params, seen) ==
    [raw |-> raw, args |-> args, hdrs |-> hdrs, params |-> params, pc |-> "reading",
     call |-> 0, miss |-> "", ret |-> NoReturnArguments, status |-> 0, body |-> FALSE,
     seen |-> seen, raced |-> FALSE, waited |-> FALSE]

Error(kind, id, key) == [kind |-> kind, req |-> id, key |-> key]

(* What MethodCalled has Mock.fail report for a call that found no usable    *)
(* expectation: a matching one that is used up, or none at all.              *)
UnmatchedError(args) ==
    IF Matching(args) # {} THEN "called over" ELSE "unexpected call"

(* ServeHTTP up to the loops: the body is read and recorded; headers and     *)
(* params are nil maps.                                                      *)
ServeHTTPBody(raw) ==
    LET args == << Str(raw.method), Str(raw.path), StrMap(NoEntries), StrMap(NoEntries),
                   RecordedBody(raw) >>
    IN  /\ server = "open"
        /\ Len(reqs) < MaxRequests
        /\ reqs' = Append(reqs, Request(raw, args, raw.header, raw.query,
                                        <<filteredHeaders, filteredParams>>))
        /\ UNCHANGED <<tNil, filteredHeaders, filteredParams, ExpectedCalls, calls,
                       times, gate, server, errors, asserts, unmet, pending>>

(* One iteration of a loop, on any key left (a Go map is ranged over in no   *)
(* fixed order): a key found in the filter is skipped; any other key gets    *)
(* its first value assigned and m.t.Errorf is called, which is a nil         *)
(* dereference when m.t is nil.                                              *)
Iteration(i, pos, f, filtered, left, kind) ==
    LET r == reqs[i]
        visited == [[r EXCEPT ![left] = @ \ {f}]
                        EXCEPT !.raced = @ \/ r.seen # <<filteredHeaders, filteredParams>>]
        kept == [visited EXCEPT !.args[pos] = StrMap(Put(@.m, f[1], f[2][1]))]
    IN  IF Skipped(f[1], filtered)
        THEN reqs' = [reqs EXCEPT ![i] = visited] /\ UNCHANGED errors
        ELSE IF tNil
        THEN reqs' = [reqs EXCEPT ![i] = [kept EXCEPT !.pc = "panicked"]] /\ UNCHANGED errors
        ELSE reqs' = [reqs EXCEPT ![i] = kept] /\ errors' = errors \cup {Error(kind, i, f[1])}

ServeHTTPHeader(i) ==
    /\ reqs[i].pc = "reading"
    /\ \E f \in reqs[i].hdrs :
            Iteration(i, 3, f, filteredHeaders, "hdrs", "multi-value header")
    /\ UNCHANGED <<tNil, filteredHeaders, filteredParams, ExpectedCalls, calls,
                   times, gate, server, asserts, unmet, pending>>

ServeHTTPParam(i) ==
    /\ reqs[i].pc = "reading"
    /\ reqs[i].hdrs = {}
    /\ \E f \in reqs[i].params :
            Iteration(i, 4, f, filteredParams, "params", "multi-value query param")
    /\ UNCHANGED <<tNil, filteredHeaders, filteredParams, ExpectedCalls, calls,
                   times, gate, server, asserts, unmet, pending>>

(* m.m.Called, first step: MethodCalled locks the mutex and searches.  With  *)
(* no usable call it settles what to report and unlocks; with one the mutex  *)
(* stays locked.                                                             *)
MethodCalledFind(i) ==
    LET r == reqs[i]
        c == findExpectedCall(r.args)
    IN  /\ r.pc = "reading" /\ r.hdrs = {} /\ r.params = {}
        /\ MutexFree
        /\ reqs' = IF c = 0
                   THEN [reqs EXCEPT ![i].pc = "missed", ![i].miss = UnmatchedError(r.args)]
                   ELSE [reqs EXCEPT ![i].pc = "locked", ![i].call = c]
        /\ UNCHANGED <<tNil, filteredHeaders, filteredParams, ExpectedCalls, calls,
                       times, gate, server, errors, asserts, unmet, pending>>

(* m.m.Called after a miss: Mock.fail takes the mutex again and panics when  *)
(* the mock has no test, or else reports through Errorf and ends the         *)
(* goroutine (FailNow).                                                      *)
MethodCalledFail(i) ==
    LET r == reqs[i]
    IN  /\ r.pc = "missed"
        /\ MutexFree
        /\ reqs' = [reqs EXCEPT ![i].pc = IF tNil THEN "panicked" ELSE "failed"]
        /\ errors' = IF tNil THEN errors ELSE errors \cup {Error(r.miss, i, "")}
        /\ UNCHANGED <<tNil, filteredHeaders, filteredParams, ExpectedCalls, calls,
                       times, gate, server, asserts, unmet, pending>>

(* m.m.Called, second step: the bookkeeping for the call found, and the      *)
(* unlock.                                                                   *)
MethodCalledRecord(i) ==
    LET r == reqs[i]
    IN  /\ r.pc = "locked"
        /\ ExpectedCalls' = [ExpectedCalls EXCEPT ![r.call] = Consume(@)]
        /\ calls' = calls \cup {r.args}
        /\ reqs' = [reqs EXCEPT ![i].pc = "counted"]
        /\ UNCHANGED <<tNil, filteredHeaders, filteredParams, times, gate, server,
                       errors, asserts, unmet, pending>>

(* A receive from the WaitUntil channel succeeds when a value is buffered or *)
(* the channel is closed.                                                    *)
(* Mutant of CanReceive: the receive never blocks. *)
CanReceiveAlways == TRUE

CanReceive == gate \in {"value", "closed"}

(* The response function, run on the request's ResponseWriter.  err is the   *)
(* error of json.Encoder.Encode or io.Copy.                                  *)
Written(r, status, body, pc) == [r EXCEPT !.status = status, !.body = body, !.pc = pc]

RunResponse(r, resp, err) ==
    CASE resp.kind \in {"none", "func"} -> Written(r, resp.status, FALSE, "done")
      [] resp.kind = "txt" -> Written(r, resp.status, TRUE, "done")
      [] resp.kind = "json" ->
            IF resp.reply = "nil" THEN Written(r, resp.status, FALSE, "done")
            ELSE IF tNil THEN Written(r, resp.status, ~err, "panicked")
            ELSE Written(r, resp.status, ~err, IF err THEN "failed" ELSE "done")
      [] resp.kind = "stream" ->
            IF resp.reply = "nil" THEN Written(r, resp.status, FALSE, "done")
            ELSE Written(r, resp.status, ~err,
                         IF ~err THEN "done" ELSE IF tNil THEN "panicked" ELSE "failed")

(* The end of ServeHTTP, m.m.Called having returned ret: ret.Get(0) panics   *)
(* when the call has no ReturnArguments; the value is run if it is a         *)
(* MockResponse; and the handler returns.                                    *)
Respond(r, ret) ==
    IF ret = NoReturnArguments THEN [r EXCEPT !.pc = "panicked"]
    ELSE IF ret.gotype = "MockResponse" THEN RunResponse(r, ret, ret.reply = "bad")
    ELSE [r EXCEPT !.pc = "done"]

ResponseErrors(r, id) ==
    IF r.pc = "failed" THEN {Error("response encoding", id, "")} ELSE {}

(* m.m.Called, third step, for a call that has a WaitFor channel: the        *)
(* receive from it, with no lock held.                                       *)
MethodCalledWait(i) ==
    LET r == reqs[i]
    IN  /\ r.pc = "counted"
        /\ ExpectedCalls[r.call].WaitFor
        /\ CanReceive
        /\ gate' = IF gate = "value" THEN "drained" ELSE gate
        /\ reqs' = [reqs EXCEPT ![i].pc = "released", ![i].waited = TRUE]
        /\ UNCHANGED <<tNil, filteredHeaders, filteredParams, ExpectedCalls, calls,
                       times, server, errors, asserts, unmet, pending>>

(* m.m.Called, last step: call.ReturnArguments is read under the mutex and   *)
(* returned to ServeHTTP.                                                    *)
MethodCalledReturn(i) ==
    LET r == reqs[i]
    IN  /\ r.pc = "released" \/ (r.pc = "counted" /\ ~ExpectedCalls[r.call].WaitFor)
        /\ MutexFree
        /\ reqs' = [reqs EXCEPT ![i].pc = "returned",
                                ![i].ret = ExpectedCalls[r.call].ReturnArguments]
        /\ UNCHANGED <<tNil, filteredHeaders, filteredParams, ExpectedCalls, calls,
                       times, gate, server, errors, asserts, unmet, pending>>

(* The rest of ServeHTTP, on the handler's own ResponseWriter. *)
ServeHTTPReply(i) ==
    LET after == Respond(reqs[i], reqs[i].ret)
    IN  /\ reqs[i].pc = "returned"
        /\ reqs' = [reqs EXCEPT ![i] = after]
        /\ errors' = errors \cup ResponseErrors(after, i)
        /\ UNCHANGED <<tNil, filteredHeaders, filteredParams, ExpectedCalls, calls,
                       times, gate, server, asserts, unmet, pending>>

(* The channel given to WaitUntil: a timer channel delivers one value; the   *)
(* test may instead close a channel it made.                                 *)
TimerFires ==
    /\ gate = "armed"
    /\ gate' = "value"
    /\ UNCHANGED <<tNil, filteredHeaders, filteredParams, ExpectedCalls, calls,
                   times, reqs, server, errors, asserts, unmet, pending>>

CloseGate ==
    /\ gate # "closed"
    /\ gate' = "closed"
    /\ UNCHANGED <<tNil, filteredHeaders, filteredParams, ExpectedCalls, calls,
                   times, reqs, server, errors, asserts, unmet, pending>>

-----------------------------------------------------------------------------
(* Assertion and teardown.                                                   *)

(* testify Mock.AssertExpectations(t), under the mutex: log every call that  *)
(* is not satisfied and Errorf once if there is any.                         *)
MockAssertExpectations ==
    /\ MutexFree
    /\ asserts' = asserts + 1
    /\ unmet' = Failed
    /\ errors' = IF Failed # {} THEN errors \cup {Error("unmet expectations", 0, "")}
                 ELSE errors

(* Mutant of AssertExpectations: it tears the server down as Close does. *)
AssertExpectationsAndClose(tIsNil) ==
    /\ TestIdle
    /\ asserts < MaxAsserts
    /\ server = "open"
    /\ server' = "closed"
    /\ IF tIsNil
       THEN UNCHANGED <<asserts, unmet, errors>>
       ELSE MockAssertExpectations
    /\ UNCHANGED <<tNil, filteredHeaders, filteredParams, ExpectedCalls, calls,
                   times, reqs, gate, pending>>

(* MockAPI.AssertExpectations(t): nothing for a nil t. *)
AssertExpectations(tIsNil) ==
    /\ TestIdle
    /\ asserts < MaxAsserts
    /\ IF tIsNil
       THEN UNCHANGED <<asserts, unmet, errors>>
       ELSE MockAssertExpectations
    /\ UNCHANGED <<tNil, filteredHeaders, filteredParams, ExpectedCalls, calls,
                   times, reqs, gate, server, pending>>

(* The handlers that have not returned. *)
InFlight ==
    {i \in 1..Len(reqs) :
        reqs[i].pc \in {"reading", "locked", "missed", "counted", "released", "returned"}}

(* m.m.AssertExpectations(m.t) as Close calls it: with a nil m.t the first   *)
(* t.Logf of a failed expectation is a nil dereference.                      *)
CloseAssertion ==
    IF tNil
    THEN /\ server' = IF Failed # {} THEN "panicked" ELSE "closed"
         /\ UNCHANGED <<asserts, unmet, errors>>
    ELSE /\ server' = "closed"
         /\ MockAssertExpectations

(* MockAPI.Close: m.s.Close() stops the listener and blocks until the        *)
(* outstanding handlers have returned (on a server that is closed already    *)
(* it returns at once); then m.m.AssertExpectations(m.t).                    *)
Close ==
    /\ TestIdle
    /\ asserts < MaxAsserts
    /\ IF InFlight = {}
       THEN CloseAssertion
       ELSE server' = "closing" /\ UNCHANGED <<asserts, unmet, errors>>
    /\ UNCHANGED <<tNil, filteredHeaders, filteredParams, ExpectedCalls, calls,
                   times, reqs, gate, pending>>

(* Close resumed once the last handler has returned. *)
CloseResume ==
    /\ server = "closing"
    /\ InFlight = {}
    /\ CloseAssertion
    /\ UNCHANGED <<tNil, filteredHeaders, filteredParams, ExpectedCalls, calls,
                   times, reqs, gate, pending>>

-----------------------------------------------------------------------------
(* The state after NewMockAPI(t) and the inputs of the test that drives it.  *)

NewMockAPI(t) ==
    /\ tNil = t
    /\ filteredHeaders = {}
    /\ filteredParams = {}
    /\ ExpectedCalls = <<>>
    /\ calls = {}
    /\ times = <<>>
    /\ reqs = <<>>
    /\ gate = "armed"
    /\ server = "open"
    /\ errors = {}
    /\ asserts = 0
    /\ unmet = {}
    /\ pending = Idle

RawRequest(method, path, header, query, body) ==
    [method |-> method, path |-> path, header |-> header, query |-> query, body |-> body]

NoBody == [present |-> FALSE, bytes |-> ""]
BodyOf(b) == [present |-> TRUE, bytes |-> b]

ReqA == NewMockRequest("GET", "/a")
RawA == RawRequest("GET", "/a", {}, {}, NoBody)
RawB == RawRequest("GET", "/b", {}, {}, NoBody)

(* The steps of the handlers that m.m.Called and the response are made of. *)
Handlers ==
    \E i \in 1..MaxRequests :
        /\ i <= Len(reqs)
        /\ \/ MethodCalledFind(i)
           \/ MethodCalledFail(i)
           \/ MethodCalledRecord(i)
           \/ MethodCalledReturn(i)
           \/ ServeHTTPReply(i)

(* The scenarios register expectations and call AssertExpectations while    *)
(* the server is open; Close may be called again on a closed server.         *)
Open == server = "open"

(* Cardinality and dispatch: expectations for GET /a, requests for GET /a    *)
(* and GET /b, a test with a reporter and no release gate; the cardinality   *)
(* calls at any time, also between two calls of Close.                       *)
Init == NewMockAPI(FALSE)

Next ==
    \/ Open /\ WithNoResponseBody(ReqA, 200)
    \/ Return
    \/ \E i \in 1..MaxCalls : Once(i) \/ Twice(i) \/ Maybe(i)
    \/ \E i \in 1..MaxCalls, n \in 1..MaxTimes : Times(i, n)
    \/ \E raw \in {RawA, RawB} : ServeHTTPBody(raw)
    \/ Handlers
    \/ Open /\ \E tIsNil \in BOOLEAN : AssertExpectations(tIsNil)
    \/ Close
    \/ CloseResume

Spec == Init /\ [][Next]_vars

(* The default handler next to an expectation for GET /a. *)
NextDefault ==
    \/ Open /\ DefaultHandler(404)
    \/ Return
    \/ DefaultHandlerTimes
    \/ Open /\ WithNoResponseBody(ReqA, 200)
    \/ Open /\ \E i \in 1..MaxCalls : Once(i)
    \/ \E raw \in {RawA, RawB} : ServeHTTPBody(raw)
    \/ Handlers
    \/ Open /\ AssertExpectations(FALSE)
    \/ Close
    \/ CloseResume

SpecDefault == Init /\ [][NextDefault]_vars

(* Release gates: expectations for GET /a with and without WaitUntil, the    *)
(* channel fired by a timer or closed by the test.                           *)
NextGate ==
    \/ Open /\ WithNoResponseBody(ReqA, 200)
    \/ Return
    \/ Open /\ \E i \in 1..MaxCalls : WaitUntil(i)
    \/ Open /\ \E i \in 1..MaxCalls, n \in 1..MaxTimes : Times(i, n)
    \/ ServeHTTPBody(RawA)
    \/ Handlers
    \/ \E i \in 1..MaxRequests : i <= Len(reqs) /\ MethodCalledWait(i)
    \/ TimerFires
    \/ CloseGate
    \/ Close
    \/ CloseResume

SpecGate == Init /\ [][NextGate]_vars

(* The same under fair scheduling of the handlers: a handler that can take   *)
(* its next step eventually takes it.  The test is under no obligation to    *)
(* fire or close the gate, nor to tear down.                                 *)
SpecGateFair ==
    /\ Init /\ [][NextGate]_vars
    /\ \A i \in 1..MaxRequests :
        /\ WF_vars(i <= Len(reqs) /\ MethodCalledFind(i))
        /\ WF_vars(i <= Len(reqs) /\ MethodCalledFail(i))
        /\ WF_vars(i <= Len(reqs) /\ MethodCalledRecord(i))
        /\ WF_vars(i <= Len(reqs) /\ MethodCalledWait(i))
        /\ WF_vars(i <= Len(reqs) /\ MethodCalledReturn(i))
        /\ WF_vars(i <= Len(reqs) /\ ServeHTTPReply(i))

(* Normalisation: requests for /a that differ in headers, query and body,   *)
(* filters for User-Agent and dc, expectations with and without headers,     *)
(* query parameters and body, registered before the first request.          *)
UserAgent == <<"User-Agent", <<"Go-http-client/1.1">>>>
XToken == <<"X-Token", <<"t1">>>>
XTokenTwice == <<"X-Token", <<"t1", "t2">>>>
Dc == <<"dc", <<"dc1">>>>
Q == <<"q", <<"1">>>>

NormRaws ==
    { RawA,
      RawRequest("GET", "/a", {UserAgent}, {}, NoBody),
      RawRequest("GET", "/a", {UserAgent, XToken}, {}, NoBody),
      RawRequest("GET", "/a", {XTokenTwice}, {}, NoBody),
      RawRequest("GET", "/a", {}, {Dc, Q}, NoBody),
      RawRequest("GET", "/a", {}, {}, BodyOf("{\"a\":1}")),
      RawRequest("GET", "/a", {}, {}, BodyOf("not-json")) }

NormMockRequests ==
    { ReqA,
      WithHeaders(ReqA, MkMap({<<"X-Token", "t1">>})),
      WithQueryParams(ReqA, MkMap({<<"q", "1">>})) }

NextNorm ==
    \/ Open /\ SetFilteredHeaders({"User-Agent"})
    \/ Open /\ SetFilteredQueryParams({"dc"})
    \/ reqs = <<>> /\ \E req \in NormMockRequests : WithJSONReply(req, 200, "ok")
    \/ Return
    \/ \E raw \in NormRaws : ServeHTTPBody(raw)
    \/ \E i \in 1..MaxRequests : i <= Len(reqs) /\ (ServeHTTPHeader(i) \/ ServeHTTPParam(i))
    \/ Handlers
    \/ Close
    \/ CloseResume

SpecNorm == Init /\ [][NextNorm]_vars

(* JSON replies: a MockAPI built with or without a reporter, expectations    *)
(* for GET /a whose reply encodes, fails to encode, or is nil.               *)
InitJSON == \E t \in BOOLEAN : NewMockAPI(t)

JSONReplies == {"ok", "bad", "nil"}

NextJSON ==
    \/ Open /\ \E reply \in JSONReplies : WithJSONReply(ReqA, 200, reply)
    \/ Return
    \/ Open /\ \E i \in 1..MaxCalls : Once(i)
    \/ ServeHTTPBody(RawA)
    \/ Handlers
    \/ Close
    \/ CloseResume

SpecJSON == InitJSON /\ [][NextJSON]_vars

-----------------------------------------------------------------------------
(* Vocabulary of the properties.                                             *)

Handles == 1..Len(ExpectedCalls)

(* This step ran testify's AssertExpectations (from AssertExpectations or Close). *)
Asserted == asserts' = asserts + 1

(* This step is request k's search in MethodCalled: the handler leaves       *)
(* ServeHTTP's loops with its arguments complete and the search either finds *)
(* a call (reqs'[k].call) or misses.                                         *)
Searching(k) ==
    /\ reqs[k].pc = "reading" /\ reqs[k].hdrs = {} /\ reqs[k].params = {}
    /\ reqs'[k].pc # "reading"

(* Request k is refused: its search has missed, and the only step left to    *)
(* its handler is the unmatched-request failure that ends it; the request    *)
(* has no call, nothing is written for it, and the step changes no           *)
(* expectation and records no call.                                          *)
Missed(k) == reqs[k].pc = "missed"

Refused(k) ==
    /\ reqs[k].call = 0 /\ reqs[k].status = 0 /\ ~reqs[k].body
    /\ reqs'[k] # reqs[k]
        => /\ reqs'[k].pc = "failed"
           /\ reqs'[k].call = 0 /\ reqs'[k].status = 0 /\ ~reqs'[k].body
           /\ ExpectedCalls' = ExpectedCalls
           /\ calls' = calls
           /\ \E e \in errors' : e.req = k /\ e.kind \in {"called over", "unexpected call"}

(* The expectation was registered by WithRequest (or a With*Reply helper). *)
IsRequestCall(i) == ~IsDefaultHandler(ExpectedCalls[i])

(* The requests that were dispatched to expectation i, and those dispatched  *)
(* to some expectation while carrying exactly the arguments i was registered *)
(* with.                                                                     *)
Dispatched(i) == {k \in 1..Len(reqs) : reqs[k].call = i}
MatchingServed(i) ==
    {k \in 1..Len(reqs) : reqs[k].call # 0 /\ reqs[k].args = ExpectedCalls[i].Arguments}

(* The request was refused by the mock: an unmatched-request failure. *)
UnmatchedIn(errs, k) ==
    \E e \in errs : e.req = k /\ e.kind \in {"called over", "unexpected call"}

UnmatchedRequest(k) == UnmatchedIn(errors, k)

(* The only expectation registered with its arguments. *)
Sole(i) == \A j \in Handles : ExpectedCalls[j].Arguments = ExpectedCalls[i].Arguments => j = i

(* times[i] is -1 for an expectation on which no cardinality call was made,  *)
(* n >= 1 for one whose last Once/Twice/Times(n) was made before any request *)
(* was dispatched to it (the fluent configuration right after registration), *)
(* and -2 for one reconfigured after it had been matched.                    *)

(* C1, as stated: an expectation with no cardinality call is reported met by *)
(* an assertion exactly when it has been matched once (zero or two matching  *)
(* requests make the assertion fail).                                        *)
C1_ExactlyOnceByDefault ==
    [][Asserted =>
        \A i \in Handles :
            (IsRequestCall(i) /\ Sole(i) /\ times[i] = -1 /\ ~ExpectedCalls[i].optional)
                => ((i \notin unmet') <=> (Cardinality(MatchingServed(i)) = 1))]_vars

(* C1, amended: an expectation with no cardinality call is reported unmet by *)
(* an assertion exactly when no request carrying its arguments has been      *)
(* dispatched, and it has no upper bound: the search for a request carrying  *)
(* its arguments never fails.                                                *)
C1_AtLeastOnceByDefault ==
    [][/\ Asserted =>
            \A i \in Handles :
                (IsRequestCall(i) /\ times[i] = -1 /\ ~ExpectedCalls[i].optional)
                    => ((i \in unmet') <=> (MatchingServed(i) = {}))
       /\ \A k \in 1..Len(reqs) :
            (/\ Searching(k)
             /\ \E i \in Handles : /\ IsRequestCall(i) /\ times[i] = -1
                                   /\ ExpectedCalls[i].Arguments = reqs[k].args)
                => reqs'[k].call # 0]_vars

(* Witness of C1: Close's assertion passed an expectation with no            *)
(* cardinality call after two requests had been dispatched to it and         *)
(* answered.                                                                 *)
C1_Witness ==
    \E i \in Handles :
        /\ IsRequestCall(i) /\ times[i] = -1 /\ ~ExpectedCalls[i].optional
        /\ ExpectedCalls[i].totalCalls = 2
        /\ Cardinality(Dispatched(i)) = 2
        /\ \A k \in Dispatched(i) : reqs[k].pc = "done" /\ reqs[k].status = 200
        /\ server = "closed" /\ asserts > 0 /\ i \notin unmet

(* C2: an expectation configured with Once, Twice or Times(n), n >= 1, right *)
(* after its registration (before any request was dispatched to it) is       *)
(* reported met by an assertion exactly when its call count equals n.        *)
C2_TimesMetIffCountIsN ==
    [][Asserted =>
        \A i \in Handles :
            times[i] >= 1 =>
                ((i \notin unmet') <=> (ExpectedCalls[i].totalCalls = times[i]))]_vars

(* Witness of C2: AssertExpectations reported the only expectation, a Twice  *)
(* one, unmet at a count below 2, and Close's assertion reported it met at   *)
(* count 2.                                                                  *)
C2_Witness ==
    /\ Len(ExpectedCalls) = 1
    /\ times[1] = 2 /\ ExpectedCalls[1].totalCalls = 2
    /\ asserts = 2 /\ server = "closed" /\ unmet = {}
    /\ \E e \in errors : e.kind = "unmet expectations"

(* C3: the call count of an expectation configured with Once/Times(n) right  *)
(* after its registration never exceeds n, and the search for a request      *)
(* whose arguments match only expectations that have used up their n calls   *)
(* misses and changes no call count; a request whose search has missed is    *)
(* refused with an unmatched-request failure.                                *)
Exhausted(i) == times[i] >= 1 /\ ExpectedCalls[i].totalCalls = times[i]

C3_NeverMoreThanN ==
    [][/\ \A i \in 1..Len(ExpectedCalls') :
            times'[i] >= 1 => ExpectedCalls'[i].totalCalls <= times'[i]
       /\ \A k \in 1..Len(reqs) :
            LET hit == {i \in Handles : ExpectedCalls[i].Arguments = reqs[k].args}
            IN  (Searching(k) /\ hit # {} /\ \A i \in hit : Exhausted(i))
                    => /\ reqs'[k].pc = "missed"
                       /\ reqs'[k].miss = "called over"
                       /\ ExpectedCalls' = ExpectedCalls
       /\ \A k \in 1..Len(reqs) : (Missed(k) /\ reqs[k].miss = "called over") => Refused(k)]_vars

(* Witness of C3: a Once expectation at count 1 and a second matching        *)
(* request refused.                                                          *)
C3_Witness ==
    \E i \in Handles, k \in 1..Len(reqs) :
        /\ times[i] = 1 /\ ExpectedCalls[i].totalCalls = 1
        /\ reqs[k].args = ExpectedCalls[i].Arguments
        /\ reqs[k].pc = "failed" /\ reqs[k].call = 0 /\ UnmatchedRequest(k)
        /\ Sole(i)

(* C4: the search for a request finds the earliest registered expectation    *)
(* among those that match it and can still be called; so two identical       *)
(* Times(1) expectations take the first and the second matching request to   *)
(* be dispatched, in registration order.                                     *)
C4_RegistrationOrder ==
    [][\A k \in 1..Len(reqs) :
        (Searching(k) /\ reqs'[k].call # 0)
            => /\ ExpectedCalls[reqs'[k].call].Repeatability > -1
               /\ \A i \in 1..(reqs'[k].call - 1) :
                    ExpectedCalls[i].Arguments = reqs[k].args
                        => /\ ExpectedCalls[i].Repeatability = -1
                           /\ times[i] >= 1 => Dispatched(i) # {}]_vars

(* Witness of C4: two identical Times(1) expectations; one request was       *)
(* dispatched to the first, then the other to the second.                    *)
C4_Witness ==
    /\ Len(ExpectedCalls) = 2 /\ Len(reqs) = 2
    /\ ExpectedCalls[1].Arguments = ExpectedCalls[2].Arguments
    /\ times[1] = 1 /\ times[2] = 1
    /\ \E j \in 1..2, k \in 1..2 :
        /\ reqs[j].call = 1 /\ reqs[j].pc = "done"
        /\ reqs[k].call = 2 /\ reqs[k].pc = "locked"
    /\ ExpectedCalls[1].totalCalls = 1 /\ ExpectedCalls[2].totalCalls = 0

(* C5, as stated: an expectation marked Maybe is never reported unmet,       *)
(* whatever its call count and whatever Once/Twice/Times(n) was also called. *)
C5_MaybeNeverFails ==
    [][Asserted =>
        \A i \in Handles : ExpectedCalls[i].optional => i \notin unmet']_vars

(* C5, amended: an expectation marked Maybe on which no Once/Twice/Times was *)
(* called is never reported unmet, whatever its call count.                  *)
C5_MaybeAloneNeverFails ==
    [][Asserted =>
        \A i \in Handles :
            (ExpectedCalls[i].optional /\ times[i] = -1) => i \notin unmet']_vars

(* Witness of C5: AssertExpectations and Close both passed, the latter with  *)
(* a Maybe expectation at count 2 next to a Maybe expectation at count 0.    *)
C5_Witness ==
    \E i \in Handles, j \in Handles :
        /\ ExpectedCalls[i].optional /\ times[i] = -1 /\ ExpectedCalls[i].totalCalls = 2
        /\ ExpectedCalls[j].optional /\ times[j] = -1 /\ ExpectedCalls[j].totalCalls = 0
        /\ asserts = 2 /\ server = "closed" /\ unmet = {}
        /\ \A e \in errors : e.kind # "unmet expectations"

(* C6: with no default handler, the search for a request whose method and    *)
(* path are those of no registered expectation misses and changes no call    *)
(* count; a request whose search has missed is refused with an               *)
(* unmatched-request failure and has no response function run.               *)
NoDefaultHandler == \A i \in Handles : ~IsDefaultHandler(ExpectedCalls[i])

C6_UnmatchedRequest ==
    [][/\ \A k \in 1..Len(reqs) :
        (/\ Searching(k)
         /\ NoDefaultHandler
         /\ \A i \in Handles :
                \/ ExpectedCalls[i].Arguments[1] # Str(reqs[k].raw.method)
                \/ ExpectedCalls[i].Arguments[2] # Str(reqs[k].raw.path))
            => /\ reqs'[k].pc = "missed"
               /\ reqs'[k].miss = "unexpected call"
               /\ ExpectedCalls' = ExpectedCalls
               /\ calls' = calls
       /\ \A k \in 1..Len(reqs) : (Missed(k) /\ reqs[k].miss = "unexpected call") => Refused(k)]_vars

(* Witness of C6: GET /b refused while the only expectations are for GET /a  *)
(* and none of them has been counted.                                        *)
C6_Witness ==
    \E k \in 1..Len(reqs) :
        /\ reqs[k].raw = RawB /\ reqs[k].pc = "failed" /\ reqs[k].call = 0
        /\ UnmatchedRequest(k) /\ reqs[k].status = 0
        /\ Len(ExpectedCalls) > 0
        /\ \A i \in Handles : ExpectedCalls[i].totalCalls = 0


(* C7: the body recorded for a request is the decoded mapping when the body  *)
(* is a JSON object, the raw bytes when it is not empty and is no JSON       *)
(* object, and nil when it is absent or empty.                               *)
DocumentedBody(body) ==
    IF ~body.present \/ body.bytes = "" THEN NilBody
    ELSE IF ~Unmarshal(body.bytes).err THEN ObjMap(Unmarshal(body.bytes).m)
    ELSE Bytes(body.bytes)

C7_BodyNormalization ==
    \A k \in 1..Len(reqs) : reqs[k].args[5] = DocumentedBody(reqs[k].raw.body)

(* The filters were set before the request arrived and every lookup of its   *)
(* loops was made in them (the filters are configured before traffic);       *)
(* Normalized: the loops are over.                                           *)
Settled(k) == ~reqs[k].raced

Normalized(k) == reqs[k].hdrs = {} /\ reqs[k].params = {} /\ reqs[k].pc # "panicked"

Keys(multi) == {f[1] : f \in multi}

(* C8: with the filters set before the request arrives, no filtered header   *)
(* name and no filtered query key is in the arguments handed to the mock;    *)
(* and the search for a request all of whose headers (query keys) are        *)
(* filtered finds a call when an expectation without headers (query          *)
(* parameters) that agrees with it otherwise can still be called, with no    *)
(* failure reported for the request when none of its keys is left.           *)
AgreesApartFrom(i, args, pos) ==
    /\ ExpectedCalls[i].Repeatability > -1
    /\ ExpectedCalls[i].Arguments[pos] = StrMap(NilMap)
    /\ \A p \in (1..5) \ {pos} : ExpectedCalls[i].Arguments[p] = args[p]

C8_FilteredNeverSeen ==
    [][\A k \in 1..Len(reqs) :
        Settled(k) =>
            /\ \A f \in reqs[k].args[3].m.kv : f[1] \notin reqs[k].seen[1]
            /\ \A f \in reqs[k].args[4].m.kv : f[1] \notin reqs[k].seen[2]
            /\ (/\ Searching(k)
                /\ reqs[k].raw.header # {} /\ Keys(reqs[k].raw.header) \subseteq reqs[k].seen[1]
                /\ \E i \in Handles : AgreesApartFrom(i, reqs[k].args, 3))
                  => /\ reqs'[k].call # 0
                     /\ Keys(reqs[k].raw.query) \subseteq reqs[k].seen[2]
                            => \A e \in errors' : e.req # k
            /\ (/\ Searching(k)
                /\ reqs[k].raw.query # {} /\ Keys(reqs[k].raw.query) \subseteq reqs[k].seen[2]
                /\ \E i \in Handles : AgreesApartFrom(i, reqs[k].args, 4))
                  => /\ reqs'[k].call # 0
                     /\ Keys(reqs[k].raw.header) \subseteq reqs[k].seen[1]
                            => \A e \in errors' : e.req # k]_vars

(* Witness of C8: a request with only a User-Agent header, which is filtered, *)
(* answered by an expectation registered without headers, and nothing        *)
(* reported.                                                                 *)
C8_Witness ==
    \E k \in 1..Len(reqs) :
        /\ Keys(reqs[k].raw.header) = {"User-Agent"}
        /\ reqs[k].seen[1] = {"User-Agent"} /\ Settled(k)
        /\ reqs[k].call # 0
        /\ ExpectedCalls[reqs[k].call].Arguments = RequestArguments(ReqA)
        /\ reqs[k].pc = "done" /\ reqs[k].status = 200
        /\ errors = {}

(* C9: while the channel given to WaitUntil has not fired, a request that    *)
(* has been counted against an expectation that waits on it stays where it   *)
(* is: it has been counted and recorded, and no status code and no body is   *)
(* written for it.                                                           *)
Fired == gate # "armed"

Waiting ==
    {k \in 1..Len(reqs) : reqs[k].pc = "counted" /\ ExpectedCalls[reqs[k].call].WaitFor}

C9_NothingWrittenBeforeGate ==
    [][\A k \in Waiting :
        ~Fired => /\ reqs[k].status = 0 /\ ~reqs[k].body
                  /\ ExpectedCalls[reqs[k].call].totalCalls >= 1
                  /\ reqs[k].args \in calls
                  /\ reqs'[k].pc = "counted"
                  /\ reqs'[k].status = 0 /\ ~reqs'[k].body]_vars

(* Witness of C9: a request counted against a Once expectation with a gate,  *)
(* which is used up, and still unanswered because the gate has not fired.    *)
C9_Witness ==
    \E k \in Waiting :
        /\ gate = "armed"
        /\ ExpectedCalls[reqs[k].call].totalCalls = 1
        /\ ExpectedCalls[reqs[k].call].Repeatability = -1
        /\ reqs[k].status = 0

(* C10: with a default handler registered, the search for a request that no  *)
(* expectation registered for its arguments can take finds the default       *)
(* handler, and no unmatched-request failure is reported.                    *)
C10_DefaultHandlerTakesTheRest ==
    [][\A k \in 1..Len(reqs), d \in Handles :
        (/\ Searching(k)
         /\ IsDefaultHandler(ExpectedCalls[d])
         /\ \A j \in Handles : IsDefaultHandler(ExpectedCalls[j]) => d <= j
         /\ \A i \in Available(reqs[k].args) : IsDefaultHandler(ExpectedCalls[i]))
            => /\ reqs'[k].call = d
               /\ ~UnmatchedIn(errors', k)]_vars

(* C11: a registered default handler is never required: no assertion, from   *)
(* AssertExpectations or from Close, reports the default handler unmet,      *)
(* whether it was matched or not.                                            *)
C11_DefaultHandlerNeverRequired ==
    [][Asserted =>
        \A i \in Handles : IsDefaultHandler(ExpectedCalls[i]) => i \notin unmet']_vars

(* C12: with the filters set before the request arrives, a multi-value error *)
(* is reported for a request exactly when some header or query key that is   *)
(* not filtered carries more than one value (a request whose unfiltered keys *)
(* are all single-valued reports none), and the arguments handed to the mock *)
(* carry the first value of each such key.                                   *)
MultiValueIn(errs, k) ==
    \E e \in errs : e.req = k /\ e.kind \in {"multi-value header", "multi-value query param"}

Surviving(multi, filtered) == {f \in multi : f[1] \notin filtered}

HasMultiValue(k) ==
    \E f \in Surviving(reqs[k].raw.header, reqs[k].seen[1])
                \cup Surviving(reqs[k].raw.query, reqs[k].seen[2]) : Len(f[2]) > 1

C12_MultiValueReportedIffDetected ==
    \A k \in 1..Len(reqs) :
        (Settled(k) /\ Normalized(k)) =>
            /\ MultiValueIn(errors, k) <=> HasMultiValue(k)
            /\ \A f \in Surviving(reqs[k].raw.header, reqs[k].seen[1]) :
                    <<f[1], f[2][1]>> \in reqs[k].args[3].m.kv
            /\ \A f \in Surviving(reqs[k].raw.query, reqs[k].seen[2]) :
                    <<f[1], f[2][1]>> \in reqs[k].args[4].m.kv

(* C13: a request that no expectation can take is reported as an unmatched   *)
(* request and is answered all the same: a status code is written and its    *)
(* handler finishes.                                                         *)
C13_UnmatchedRequestIsAnswered ==
    \A k \in 1..Len(reqs) :
        (reqs[k].pc \notin {"reading", "missed"} /\ reqs[k].call = 0)
            => /\ UnmatchedRequest(k)
               /\ reqs[k].status # 0
               /\ reqs[k].pc = "done"


(* C14: whatever the interleaving of the handlers, the call count of an      *)
(* expectation is the number of requests counted against it; and when more   *)
(* requests carrying its arguments have gone through the search than the n   *)
(* of the Times(n) it was given right after its registration, exactly n of   *)
(* them were dispatched to it and each of the others was refused as an       *)
(* unmatched request.                                                        *)
Counted(i) == {k \in Dispatched(i) : reqs[k].pc # "locked"}

Carrying(i) == {k \in 1..Len(reqs) : reqs[k].args = ExpectedCalls[i].Arguments}

Searched(K) == \A k \in K : reqs[k].pc \notin {"reading", "locked", "missed"}

CalledOver(k) == \E e \in errors : e.req = k /\ e.kind = "called over"

(* Every request carrying the arguments of i was searched for once i existed. *)
AllAgainst(i) == \A k \in Carrying(i) : \A e \in errors : e.req = k => e.kind # "unexpected call"

C14_CountsAreDispatches ==
    \A i \in Handles :
        /\ ExpectedCalls[i].totalCalls = Cardinality(Counted(i))
        /\ (/\ Sole(i) /\ times[i] >= 1
            /\ Searched(Carrying(i)) /\ AllAgainst(i)
            /\ Cardinality(Carrying(i)) > times[i])
              => /\ Cardinality(Dispatched(i)) = times[i]
                 /\ Cardinality({k \in Carrying(i) : reqs[k].call = 0 /\ CalledOver(k)})
                        = Cardinality(Carrying(i)) - times[i]

(* Witness of C14: two requests in flight together against a Once            *)
(* expectation; the one that arrived second was dispatched, the one that     *)
(* arrived first was refused.                                                *)
C14_Witness ==
    /\ Len(reqs) = 2 /\ Len(ExpectedCalls) = 1
    /\ times[1] = 1 /\ ExpectedCalls[1].totalCalls = 1
    /\ reqs[2].call = 1 /\ reqs[2].pc = "done"
    /\ reqs[1].call = 0 /\ CalledOver(1)

(* C15: a request waiting on a gate that has not fired blocks only itself    *)
(* and holds no lock: while it waits, every other handler can take its next  *)
(* step as soon as no handler is inside MethodCalled's critical section (a   *)
(* handler inside it can finish it), a new request can be read, and a new    *)
(* expectation can be registered.                                            *)
InMethodCalled == {k \in 1..Len(reqs) : reqs[k].pc = "locked"}

C15_GateBlocksOnlyItsRequest ==
    (~Fired /\ Waiting # {}) =>
        /\ \A j \in InMethodCalled : ENABLED MethodCalledRecord(j)
        /\ \A j \in 1..Len(reqs) :
            /\ (reqs[j].pc = "reading" /\ InMethodCalled = {}) => ENABLED MethodCalledFind(j)
            /\ (reqs[j].pc = "missed" /\ InMethodCalled = {}) => ENABLED MethodCalledFail(j)
            /\ (/\ reqs[j].pc = "counted" /\ j \notin Waiting
                /\ InMethodCalled = {}) => ENABLED MethodCalledReturn(j)
            /\ (reqs[j].pc = "released" /\ InMethodCalled = {})
                    => ENABLED MethodCalledReturn(j)
            /\ reqs[j].pc = "returned" => ENABLED ServeHTTPReply(j)
        /\ (server = "open" /\ Len(reqs) < MaxRequests) => ENABLED ServeHTTPBody(RawA)
        /\ (/\ server = "open" /\ pending = Idle /\ Len(ExpectedCalls) < MaxCalls
            /\ InMethodCalled = {}) => ENABLED WithNoResponseBody(ReqA, 200)

(* Witness of C15: the first request still waits on the gate of a Once       *)
(* expectation, and the second request has been dispatched to another        *)
(* expectation, counted and answered.                                        *)
C15_Witness ==
    /\ Len(reqs) = 2 /\ Len(ExpectedCalls) = 2
    /\ gate = "armed"
    /\ 1 \in Waiting /\ reqs[1].call = 1
    /\ reqs[2].pc = "done" /\ reqs[2].call = 2 /\ reqs[2].status = 200
    /\ ExpectedCalls[2].totalCalls = 1

(* C16: once the channel given to WaitUntil has fired, no request matched to *)
(* the expectation is held back any longer: a request that is waiting, or    *)
(* that is counted after the firing, can go on to its response without       *)
(* another firing.                                                           *)
C16_OneFiringReleasesEveryRequest ==
    Fired => \A k \in Waiting : ENABLED MethodCalledWait(k)

(* C17: a request answered by a WithJSONReply expectation has the status     *)
(* code written, and its handler ends in a failure (a test failure with a    *)
(* reporter, a panic without one) exactly when encoding the reply returned   *)
(* an error; when the reply encodes, or is nil, the handler returns normally *)
(* with or without a reporter.                                               *)
EncodeFails(resp) == resp.reply = "bad"

Answered(k) == k <= Len(reqs) /\ reqs[k].pc \in {"done", "failed", "panicked"}

C17_JSONFailureIffEncodeError ==
    \A k \in 1..Len(reqs) :
        (Answered(k) /\ reqs[k].ret.kind = "json")
            => /\ reqs[k].status = reqs[k].ret.status
               /\ reqs[k].pc = IF ~EncodeFails(reqs[k].ret) THEN "done"
                               ELSE IF tNil THEN "panicked" ELSE "failed"

(* C18: with the filters set before the request arrives, for every request   *)
(* whose arguments are complete and every expectation, an expected header    *)
(* map that is nil equals the request's header argument exactly when no      *)
(* header of the request is left after filtering, and likewise for the query *)
(* parameters; and an expectation registered without a body is found for a   *)
(* request, or matches it, only when the request has no body or an empty     *)
(* one, which is recorded as nil.                                            *)
NoneLeft(multi, filtered) == Keys(multi) \subseteq filtered

BodyAbsent(raw) == ~raw.body.present \/ raw.body.bytes = ""

C18_NilMatchesOnlyNothing ==
    \A k \in 1..Len(reqs), i \in Handles :
        LET expected == ExpectedCalls[i].Arguments
            r == reqs[k]
        IN  (IsRequestCall(i) /\ Settled(k) /\ Normalized(k)) =>
                /\ expected[3] = StrMap(NilMap)
                    => (ArgMatches(expected[3], r.args[3])
                            <=> NoneLeft(r.raw.header, r.seen[1]))
                /\ expected[4] = StrMap(NilMap)
                    => (ArgMatches(expected[4], r.args[4])
                            <=> NoneLeft(r.raw.query, r.seen[2]))
                /\ (expected[5] = NilBody /\ (r.call = i \/ i \in Matching(r.args)))
                    => (BodyAbsent(r.raw) /\ r.args[5] = NilBody)

(* Witness of C18: the only expectation has neither headers, query           *)
(* parameters nor body; a request whose only header is filtered was          *)
(* dispatched to it, and a request with a header left after filtering was    *)
(* refused.                                                                  *)
C18_Witness ==
    /\ Len(ExpectedCalls) = 1 /\ ExpectedCalls[1].Arguments = RequestArguments(ReqA)
    /\ \E j \in 1..Len(reqs), k \in 1..Len(reqs) :
        /\ reqs[j].raw.header = {UserAgent} /\ reqs[j].seen[1] = {"User-Agent"}
        /\ Settled(j) /\ reqs[j].call = 1
        /\ reqs[k].raw.header = {UserAgent, XToken} /\ reqs[k].seen[1] = {"User-Agent"}
        /\ Settled(k) /\ reqs[k].call = 0 /\ UnmatchedRequest(k)

(* C19: under fair scheduling a request dispatched to an expectation that   *)
(* has no gate, or whose gate has fired, is eventually answered (unless a    *)
(* gate that has not fired is put on the expectation first); while the gate  *)
(* has not fired a waiting request has nothing written; and Close does not   *)
(* get to its assertion while a request waits.                               *)
Matched(k) == k <= Len(reqs) /\ reqs[k].call # 0

Gated(k) == Matched(k) /\ ExpectedCalls[reqs[k].call].WaitFor

C19_DispatchLiveness ==
    /\ \A k \in 1..MaxRequests :
        (Matched(k) /\ (Gated(k) => Fired)) ~> (Answered(k) \/ (Gated(k) /\ ~Fired))
    /\ [](\A k \in Waiting : ~Fired => (reqs[k].status = 0 /\ ~reqs[k].body))
    /\ [](server = "closed" => Waiting = {})

(* C20: a call of AssertExpectations changes neither the expectations, their *)
(* call counts and remaining calls, nor the recorded calls, the filters and  *)
(* the requests, and leaves the server as it was, so that a later request    *)
(* finds what it would have found without the call; a second assertion would *)
(* report the same expectations unmet; called with a nil reporter it runs no *)
(* assertion and reports nothing.                                            *)
C20_AssertExpectationsReadOnly ==
    [][/\ (AssertExpectations(FALSE) \/ AssertExpectations(TRUE))
            => /\ ExpectedCalls' = ExpectedCalls
               /\ calls' = calls
               /\ server' = server
               /\ reqs' = reqs
               /\ filteredHeaders' = filteredHeaders /\ filteredParams' = filteredParams
               /\ Failed' = Failed
       /\ AssertExpectations(FALSE) => unmet' = Failed
       /\ AssertExpectations(TRUE)
            => (errors' = errors /\ asserts' = asserts /\ unmet' = unmet)]_vars

(* Witness of C20: an assertion reported an expectation unmet, the server    *)
(* stayed open, and a request served afterwards was dispatched to that       *)
(* expectation and answered.                                                 *)
C20_Witness ==
    /\ asserts = 1 /\ server = "open"
    /\ \E i \in unmet, k \in 1..Len(reqs) :
        /\ ExpectedCalls[i].totalCalls = 1
        /\ reqs[k].call = i /\ reqs[k].pc = "done" /\ reqs[k].status = 200
    /\ Failed = {}
====
